---------------------------- MODULE Spec2Model ----------------------------
(***************************************************************************)
(* Multi-tenant session and storage isolation of the Task Master MCP       *)
(* server: the path resolver (path-resolver.ts), the authenticate          *)
(* callback, the connect handler / registerRemoteProvider and start / stop *)
(* of TaskMasterMCPServer (mcp-server/src/index.js), and the entry point   *)
(* startServer with its signal handlers and keep-alive interval.           *)
(*                                                                         *)
(* Strings are sequences of atoms.  The atoms "/", "." and "{" are the     *)
(* characters the code inspects; every other atom ("a", "storage",         *)
(* "taskmaster", ...) stands for a run of characters none of which is one  *)
(* of those three, except "tasks.json", a fixed file name that is never a  *)
(* "." or ".." path segment.                                               *)
(***************************************************************************)
EXTENDS Integers, Sequences, FiniteSets, TLC

VARIABLES
    env,                  \* process.env: LIBRECHAT_USER_ID, STORAGE_ROOT, TASK_MASTER_STORAGE_ROOT
    DEFAULT_STORAGE_ROOT, \* module constant of path-resolver.ts, computed at module load
    projectPath,          \* the project root handed to new PathResolver(...)
    resolver,             \* per caller: the PathResolver it constructed and the inputs it was built from
    request,              \* the argument handed to options.authenticate
    authResult,           \* what that call of authenticate did
    listeners,            \* number of 'connect' listeners start() has put on this.server
    session,              \* the engine's session objects: auth, env, clientCapabilities
    registry,             \* ProviderRegistry.getInstance(): entries name -> provider
    providers,            \* number of MCPProvider objects constructed so far
    clientLog,            \* per session: what session.server.sendLoggingMessage was given
    serverLog,            \* what this.logger was given
    lastRegistered,       \* the provider handed to the last registerProvider call that returned
    outcome,              \* per session: how the emit of its connect event ended
    effects,              \* per session: the side effects of its connect handling, in order
    directCall,           \* how a call registerRemoteProvider(session) with no session ended
    config,               \* process.env: HOST, PORT, MCP_USE_HTTP, MCP_ENDPOINT
    pc,                   \* where the entry point (startServer) is
    engine,               \* the protocol engine (this.server): idle, starting, running, failed, stopped
    engineError,          \* error.message of the rejection of this.server.start, NoError if none
    engineStarts,         \* the arguments of the calls of this.server.start, in order
    stopsPending,         \* signal handlers waiting on await server.stop()
    stopsCompleted,       \* calls of this.server.stop() that have completed
    keepAlive,            \* the entry point's setInterval: none, armed, cleared
    received,             \* termination signals delivered to the process so far
    startFailed,          \* server.start() rejected
    exitCode              \* the code the process ended with, NoExit while it runs

(***************************************************************************)
(* JavaScript values                                                       *)
(***************************************************************************)
Undefined == [t |-> "undefined", s |-> <<>>, n |-> 0]
Str(s)    == [t |-> "string", s |-> s, n |-> 0]
Num(n)    == [t |-> "number", s |-> <<>>, n |-> n]
Arr(s)    == [t |-> "array", s |-> s, n |-> 0]

\* ToBoolean: undefined and "" and 0 are falsy, arrays are truthy
Truthy(v) ==
    CASE v.t = "undefined" -> FALSE
      [] v.t = "string"    -> v.s # <<>>
      [] v.t = "number"    -> v.n # 0
      [] OTHER             -> TRUE

\* a || b
JsOr(a, b) == IF Truthy(a) THEN a ELSE b

\* String.prototype.startsWith
startsWith(s, prefix) ==
    /\ Len(s) >= Len(prefix)
    /\ SubSeq(s, 1, Len(prefix)) = prefix

\* the literal '{{'
TemplateOpen == <<"{", "{">>

(***************************************************************************)
(* TaskMasterMCPServer.options.authenticate                                *)
(***************************************************************************)
\* the property names a headers object is indexed with
HeaderKeys == {"x-librechat-user-id", "X-LibreChat-User-ID", "X-LIBRECHAT-USER-ID"}

\* a falsy request (stdio transport)
NoRequest == [present |-> FALSE, hasHeaders |-> FALSE,
              headers |-> [k \in HeaderKeys |-> Undefined]]

\* request.headers[k]; a missing property reads as undefined
Header(req, k) == req.headers[k]

\* threw: the call raised (userId.startsWith is not a function);
\* userId: the userId of the returned object, Undefined when undefined is returned
authenticate(req) ==
    IF ~req.present \/ ~req.hasHeaders
    THEN [called |-> TRUE, threw |-> FALSE, userId |-> Undefined]
    ELSE LET userId == JsOr(Header(req, "x-librechat-user-id"),
                            Header(req, "X-LibreChat-User-ID"))
         IN  IF ~Truthy(userId)
             THEN [called |-> TRUE, threw |-> FALSE, userId |-> Undefined]
             ELSE IF userId.t # "string"
                  THEN [called |-> TRUE, threw |-> TRUE, userId |-> Undefined]
                  ELSE IF ~startsWith(userId.s, TemplateOpen)
                       THEN [called |-> TRUE, threw |-> FALSE, userId |-> userId]
                       ELSE [called |-> TRUE, threw |-> FALSE, userId |-> Undefined]

(***************************************************************************)
(* node:path (posix): join and normalize                                   *)
(***************************************************************************)
DotDot == <<".", ".">>

RECURSIVE SplitFrom(_, _, _)
SplitFrom(s, i, cur) ==
    IF i > Len(s) THEN <<cur>>
    ELSE IF s[i] = "/" THEN <<cur>> \o SplitFrom(s, i + 1, <<>>)
    ELSE SplitFrom(s, i + 1, Append(cur, s[i]))

\* the segments of a path string between its separators
Split(s) == SplitFrom(s, 1, <<>>)

RECURSIVE NormSegs(_, _, _, _)
NormSegs(segs, i, res, allowAboveRoot) ==
    IF i > Len(segs) THEN res
    ELSE LET g == segs[i] IN
         IF g = <<>> \/ g = <<".">> THEN NormSegs(segs, i + 1, res, allowAboveRoot)
         ELSE IF g = DotDot
              THEN IF Len(res) > 0 /\ res[Len(res)] # DotDot
                   THEN NormSegs(segs, i + 1, SubSeq(res, 1, Len(res) - 1), allowAboveRoot)
                   ELSE IF allowAboveRoot
                        THEN NormSegs(segs, i + 1, Append(res, g), allowAboveRoot)
                        ELSE NormSegs(segs, i + 1, res, allowAboveRoot)
              ELSE NormSegs(segs, i + 1, Append(res, g), allowAboveRoot)

\* normalizeString: resolves "." and ".." segments and drops empty ones
normalizeString(p, allowAboveRoot) == NormSegs(Split(p), 1, <<>>, allowAboveRoot)

RECURSIVE JoinSegs(_)
JoinSegs(segs) ==
    IF Len(segs) = 0 THEN <<>>
    ELSE IF Len(segs) = 1 THEN segs[1]
    ELSE segs[1] \o <<"/">> \o JoinSegs(Tail(segs))

\* path.normalize
normalize(p) ==
    IF Len(p) = 0 THEN <<".">>
    ELSE LET isAbsolute        == p[1] = "/"
             trailingSeparator == p[Len(p)] = "/"
             body              == JoinSegs(normalizeString(p, ~isAbsolute))
         IN  IF Len(body) = 0
             THEN IF isAbsolute THEN <<"/">>
                  ELSE IF trailingSeparator THEN <<".", "/">> ELSE <<".">>
             ELSE LET withSep == IF trailingSeparator THEN body \o <<"/">> ELSE body
                  IN  IF isAbsolute THEN <<"/">> \o withSep ELSE withSep

RECURSIVE JoinArgs(_)
JoinArgs(args) ==
    IF Len(args) = 0 THEN <<>>
    ELSE LET rest == JoinArgs(Tail(args)) IN
         IF Len(args[1]) = 0 THEN rest
         ELSE IF Len(rest) = 0 THEN args[1]
         ELSE args[1] \o <<"/">> \o rest

\* path.join: the non-empty arguments joined by "/", then normalized
join(args) ==
    LET joined == JoinArgs(args) IN
    IF Len(joined) = 0 THEN <<".">> ELSE normalize(joined)

(***************************************************************************)
(* path-resolver.ts                                                        *)
(***************************************************************************)
DotTaskmaster == <<".", "taskmaster">>
TasksName     == <<"tasks">>
TasksJson     == <<"tasks.json">>
SlashStorage  == <<"/", "storage">>

\* const DEFAULT_STORAGE_ROOT = process.env.STORAGE_ROOT || '/storage'
LoadDefaultStorageRoot(loadEnv) == JsOr(loadEnv.STORAGE_ROOT, Str(SlashStorage)).s

\* resolveBasePath with the explicit override consulted before the identity
resolveBasePath_customRootFirst(p, processEnv) ==
    LET userId     == processEnv.LIBRECHAT_USER_ID
        customRoot == processEnv.TASK_MASTER_STORAGE_ROOT
    IN  IF Truthy(customRoot) THEN customRoot.s
        ELSE IF Truthy(userId) /\ ~startsWith(userId.s, TemplateOpen)
             THEN join(<<JsOr(processEnv.STORAGE_ROOT, Str(DEFAULT_STORAGE_ROOT)).s, userId.s,
                         DotTaskmaster>>)
             ELSE join(<<p, DotTaskmaster>>)

\* resolveBasePath without the template-placeholder test
resolveBasePath_noPlaceholderTest(p, processEnv) ==
    LET userId == processEnv.LIBRECHAT_USER_ID IN
    IF Truthy(userId)
    THEN join(<<JsOr(processEnv.STORAGE_ROOT, Str(DEFAULT_STORAGE_ROOT)).s, userId.s,
                DotTaskmaster>>)
    ELSE LET customRoot == processEnv.TASK_MASTER_STORAGE_ROOT IN
         IF Truthy(customRoot) THEN customRoot.s
         ELSE join(<<p, DotTaskmaster>>)

\* processEnv is process.env as it is when the function runs
resolveBasePath(p, processEnv) ==
    LET userId == processEnv.LIBRECHAT_USER_ID IN
    IF Truthy(userId) /\ ~startsWith(userId.s, TemplateOpen)
    THEN LET root == JsOr(processEnv.STORAGE_ROOT, Str(DEFAULT_STORAGE_ROOT)).s
         IN  join(<<root, userId.s, DotTaskmaster>>)
    ELSE LET customRoot == processEnv.TASK_MASTER_STORAGE_ROOT IN
         IF Truthy(customRoot) THEN customRoot.s
         ELSE join(<<p, DotTaskmaster>>)

\* new PathResolver(projectPath): the three read-only fields
PathResolver(p, processEnv) ==
    LET basePath == resolveBasePath(p, processEnv)
        tasksDir == join(<<basePath, TasksName>>)
    IN  [basePath      |-> basePath,
         tasksDir      |-> tasksDir,
         tasksFilePath |-> join(<<tasksDir, TasksJson>>)]

(***************************************************************************)
(* ProviderRegistry and MCPProvider                                        *)
(***************************************************************************)
NoSession == 0

\* new MCPProvider(): a fresh object with no session
NewMCPProvider(id) == [id |-> id, session |-> NoSession]

\* provider.setSession(session)
setSession(provider, sid) == [provider EXCEPT !.session = sid]

\* registry.registerProvider(name, provider): insert or replace
registerProvider(reg, name, provider) ==
    {e \in reg : e.name # name} \cup {[name |-> name, provider |-> provider]}

NoProvider == [id |-> 0, session |-> NoSession]

\* registry.getProvider(name): the current provider, or NoProvider
getProvider(reg, name) ==
    IF \E e \in reg : e.name = name
    THEN (CHOOSE e \in reg : e.name = name).provider
    ELSE NoProvider

(***************************************************************************)
(* TaskMasterMCPServer: connect handler and registerRemoteProvider         *)
(*                                                                         *)
(* The handler is synchronous, so one emit of 'connect' is one step.  st   *)
(* is the state the handler reads and writes; st.threw says an exception   *)
(* is propagating.  fault names the call of registerRemoteProvider that    *)
(* raises, if any.                                                         *)
(***************************************************************************)
ConnectMessage    == "MCP Server connected: ${event.session.name}"
SkipMessage       == "MCP session missing required sampling capabilities, providers not registered"
RegisteredMessage == "MCP Server connected"
AuthMessage       == "Session authenticated for user: ${session.auth.userId}"

Faults == {"none", "new MCPProvider", "setSession", "registerProvider"}

\* the side effects of connect handling that the trace st.effects records
LogEffect(message) == <<"sendLoggingMessage", message>>
BindEffect         == <<"session.env.LIBRECHAT_USER_ID =">>
ConstructEffect    == <<"new MCPProvider">>
SetSessionEffect   == <<"setSession">>
RegisterEffect     == <<"registerProvider">>

effect(st, sid, e) == [st EXCEPT !.effects[sid] = Append(@, e)]

\* session.server.sendLoggingMessage({data: {message}, level})
sendLoggingMessage(st, sid, message, level) ==
    effect([st EXCEPT !.clientLog[sid] = Append(@, [message |-> message, level |-> level])],
           sid, LogEffect(message))

\* !session.clientCapabilities || !session.clientCapabilities.sampling
LacksSampling(caps) == caps # "sampling"

\* registerRemoteProvider that registers whatever the capabilities are
registerRemoteProvider_noCapabilityTest(st, sid, fault) ==
    LET mcpProvider == setSession(NewMCPProvider(st.providers + 1), sid)
        made        == effect([st EXCEPT !.providers = @ + 1], sid, ConstructEffect)
        bound       == effect(made, sid, SetSessionEffect)
    IN  IF fault # "none" THEN [made EXCEPT !.threw = TRUE]
        ELSE sendLoggingMessage(
                 effect([bound EXCEPT !.registry = registerProvider(@, "mcp", mcpProvider),
                                      !.lastRegistered = mcpProvider],
                        sid, RegisterEffect),
                 sid, RegisteredMessage, "info")

\* registerRemoteProvider that keeps an entry already present
registerRemoteProvider_keepFirst(st, sid, fault) ==
    IF LacksSampling(st.session[sid].clientCapabilities)
    THEN sendLoggingMessage(st, sid, SkipMessage, "info")
    ELSE LET mcpProvider == setSession(NewMCPProvider(st.providers + 1), sid)
             made        == effect([st EXCEPT !.providers = @ + 1], sid, ConstructEffect)
             bound       == effect(made, sid, SetSessionEffect)
         IN  IF fault # "none" THEN [made EXCEPT !.threw = TRUE]
             ELSE sendLoggingMessage(
                      effect([bound EXCEPT !.registry =
                                               IF getProvider(@, "mcp") = NoProvider
                                               THEN registerProvider(@, "mcp", mcpProvider)
                                               ELSE @,
                                           !.lastRegistered = mcpProvider],
                             sid, RegisterEffect),
                      sid, RegisteredMessage, "info")

\* registerRemoteProvider that registers the new provider before giving it
\* its session
registerRemoteProvider_registerFirst(st, sid, fault) ==
    IF sid = NoSession THEN [st EXCEPT !.threw = TRUE]
    ELSE IF LacksSampling(st.session[sid].clientCapabilities)
    THEN sendLoggingMessage(st, sid, SkipMessage, "info")
    ELSE IF fault = "new MCPProvider" THEN [st EXCEPT !.threw = TRUE]
    ELSE LET created == NewMCPProvider(st.providers + 1)
             made    == effect([st EXCEPT !.providers = @ + 1], sid, ConstructEffect)
         IN  IF fault = "registerProvider" THEN [made EXCEPT !.threw = TRUE]
             ELSE LET listed == effect([made EXCEPT
                                            !.registry = registerProvider(@, "mcp", created),
                                            !.lastRegistered = created],
                                       sid, RegisterEffect)
                  IN  IF fault = "setSession" THEN [listed EXCEPT !.threw = TRUE]
                      ELSE LET mcpProvider == setSession(created, sid)
                           IN  sendLoggingMessage(
                                   effect([listed EXCEPT
                                               !.registry = registerProvider(@, "mcp", mcpProvider),
                                               !.lastRegistered = mcpProvider],
                                          sid, SetSessionEffect),
                                   sid, RegisteredMessage, "info")

\* sid = NoSession is a call with null or undefined: the else branch of
\* if (session) evaluates session.server on it, which raises a TypeError
\* before the 'No MCP sessions available' warning is sent
registerRemoteProvider(st, sid, fault) ==
    IF sid = NoSession THEN [st EXCEPT !.threw = TRUE]
    ELSE IF LacksSampling(st.session[sid].clientCapabilities)
    THEN sendLoggingMessage(st, sid, SkipMessage, "info")
    ELSE IF fault = "new MCPProvider" THEN [st EXCEPT !.threw = TRUE]
    ELSE LET created == NewMCPProvider(st.providers + 1)
             made    == effect([st EXCEPT !.providers = @ + 1], sid, ConstructEffect)
         IN  IF fault = "setSession" THEN [made EXCEPT !.threw = TRUE]
             ELSE LET mcpProvider == setSession(created, sid)
                      bound       == effect(made, sid, SetSessionEffect)
                  IN  IF fault = "registerProvider" THEN [bound EXCEPT !.threw = TRUE]
                      ELSE sendLoggingMessage(
                               effect([bound EXCEPT
                                           !.registry = registerProvider(@, "mcp", mcpProvider),
                                           !.lastRegistered = mcpProvider],
                                      sid, RegisterEffect),
                               sid, RegisteredMessage, "info")

\* the listener that writes the identity into the process environment
connectHandler_bindProcessEnv(st, sid, fault) ==
    LET logged == sendLoggingMessage(st, sid, ConnectMessage, "info")
        auth   == logged.session[sid].auth
        bound  ==
            IF Truthy(auth)
            THEN effect([logged EXCEPT
                             !.env.LIBRECHAT_USER_ID = auth,
                             !.serverLog = Append(@, [message |-> AuthMessage,
                                                      userId |-> auth.s])],
                        sid, BindEffect)
            ELSE logged
    IN  registerRemoteProvider(bound, sid, fault)

\* the listener that binds the identity before it sends the connect message
connectHandler_bindFirst(st, sid, fault) ==
    LET auth  == st.session[sid].auth
        bound ==
            IF Truthy(auth)
            THEN effect([st EXCEPT
                             !.session[sid].env = [exists |-> TRUE,
                                                   LIBRECHAT_USER_ID |-> auth],
                             !.serverLog = Append(@, [message |-> AuthMessage,
                                                      userId |-> auth.s])],
                        sid, BindEffect)
            ELSE st
    IN  registerRemoteProvider(sendLoggingMessage(bound, sid, ConnectMessage, "info"),
                               sid, fault)

\* the listener start() registers with this.server.on('connect', ...)
connectHandler(st, sid, fault) ==
    LET logged == sendLoggingMessage(st, sid, ConnectMessage, "info")
        auth   == logged.session[sid].auth
        bound  ==
            IF Truthy(auth)
            THEN effect([logged EXCEPT
                             !.session[sid].env = [exists |-> TRUE,
                                                   LIBRECHAT_USER_ID |-> auth],
                             !.serverLog = Append(@, [message |-> AuthMessage,
                                                      userId |-> auth.s])],
                        sid, BindEffect)
            ELSE logged
    IN  registerRemoteProvider(bound, sid, fault)

\* EventEmitter.emit: the listeners run in order; one that throws ends the
\* emit and the exception leaves it
RECURSIVE emitConnect(_, _, _, _)
emitConnect(st, sid, n, fault) ==
    IF n = 0 \/ st.threw THEN st
    ELSE emitConnect(connectHandler(st, sid, fault), sid, n - 1, fault)

(***************************************************************************)
(* Inputs of the path resolver                                             *)
(***************************************************************************)
MaxIdLen == 2

IdAtoms == {"a", "/"}

RECURSIVE SeqsUpTo(_, _)
SeqsUpTo(S, n) ==
    IF n = 0 THEN {<<>>}
    ELSE LET shorter == SeqsUpTo(S, n - 1)
         IN  shorter \cup {Append(q, x) : q \in {r \in shorter : Len(r) = n - 1}, x \in S}

\* values LIBRECHAT_USER_ID can hold: every string over IdAtoms up to MaxIdLen
\* (the empty string included), a second user, dot segments, an unresolved
\* template, a value with one brace only, and an identity that names a path
UserIdStrings ==
    SeqsUpTo(IdAtoms, MaxIdLen)
        \cup {<<"b">>, <<".", ".">>, <<".", "/", "a">>,
              <<"{", "{", "a">>, <<"{", "a">>,
              <<"a", "/", ".", "taskmaster", "/", "b">>}

UserIdValues == {Undefined} \cup {Str(q) : q \in UserIdStrings}

StorageRootValues     == {Undefined, Str(<<>>), Str(<<"/", "t">>)}
LoadStorageRootValues == {Undefined, Str(<<"/", "s">>)}
CustomRootValues      == {Undefined, Str(<<>>), Str(<<"/", "c", "/">>)}
ProjectPaths          == {<<"/", "p">>, <<"q", "/">>}

\* the two callers that each build one PathResolver (const resolver = ...)
Callers == {"first", "second"}

NoResolver ==
    [built |-> FALSE, userId |-> Undefined, basePath |-> <<>>, tasksDir |-> <<>>,
     tasksFilePath |-> <<>>]

pathVars == <<env, DEFAULT_STORAGE_ROOT, projectPath, resolver>>
authVars == <<request, authResult>>
sysVars  == <<listeners, session, registry, providers, clientLog, serverLog,
              lastRegistered, outcome, effects, directCall>>
bootVars == <<config, pc, engine, engineError, engineStarts, stopsPending, stopsCompleted, keepAlive,
              received, startFailed, exitCode>>
vars     == <<env, DEFAULT_STORAGE_ROOT, projectPath, resolver, request, authResult,
              listeners, session, registry, providers, clientLog, serverLog,
              lastRegistered, outcome, effects, directCall,
              config, pc, engine, engineError, engineStarts, stopsPending, stopsCompleted,
              keepAlive, received, startFailed, exitCode>>

(***************************************************************************)
(* Inputs of authenticate and of the sessions                              *)
(***************************************************************************)
\* header values: absent, strings, and values that are not strings
HeaderValues ==
    {Undefined, Str(<<>>), Str(<<"a">>), Str(<<"{", "{", "a">>), Str(<<"{", "a">>),
     Num(42), Arr(<<"a">>)}

Requests ==
    {NoRequest}
        \cup {[present |-> TRUE, hasHeaders |-> FALSE,
               headers |-> [k \in HeaderKeys |-> Undefined]]}
        \cup {[present |-> TRUE, hasHeaders |-> TRUE, headers |-> h] :
                  h \in [HeaderKeys -> HeaderValues]}

NotCalled == [called |-> FALSE, threw |-> FALSE, userId |-> Undefined]

NumSessions == 2
MaxStarts   == 2

Sessions == 1 .. NumSessions

\* what reaches authenticate from the HTTP transport (header names
\* lower-cased by the HTTP parser, values strings) and from stdio (nothing)
LowerCaseHeaders(v) ==
    [present |-> TRUE, hasHeaders |-> TRUE,
     headers |-> [k \in HeaderKeys |->
                     IF k = "x-librechat-user-id" THEN v ELSE Undefined]]

SessionRequests ==
    {NoRequest}
        \cup {LowerCaseHeaders(v) :
                  v \in {Str(<<"a">>), Str(<<"b">>), Str(<<"{", "{", "a">>)}}

ClientCapabilities == {"missing", "empty", "sampling"}

NoEnv == [exists |-> FALSE, LIBRECHAT_USER_ID |-> Undefined]
EmptyEnv == [exists |-> TRUE, LIBRECHAT_USER_ID |-> Undefined]

\* the env a new session comes with: none or an empty one; for a session
\* with an identity the handler leaves the same env in both cases, so one is
\* enumerated
SessionEnvs(userId) == IF Truthy(userId) THEN {NoEnv} ELSE {NoEnv, EmptyEnv}

NotConnected ==
    [connected |-> FALSE, closed |-> FALSE, auth |-> Undefined, env |-> NoEnv,
     clientCapabilities |-> "missing"]

(***************************************************************************)
(* Initial values                                                          *)
(***************************************************************************)
IdlePath ==
    /\ DEFAULT_STORAGE_ROOT = SlashStorage
    /\ env = [LIBRECHAT_USER_ID |-> Undefined, STORAGE_ROOT |-> Undefined,
              TASK_MASTER_STORAGE_ROOT |-> Undefined]
    /\ projectPath = <<"/", "p">>
    /\ resolver = [c \in Callers |-> NoResolver]

IdleAuth ==
    /\ request = NoRequest
    /\ authResult = NotCalled

IdleSystem ==
    /\ listeners = 0
    /\ session = [s \in Sessions |-> NotConnected]
    /\ registry = {}
    /\ providers = 0
    /\ clientLog = [s \in Sessions |-> <<>>]
    /\ serverLog = <<>>
    /\ lastRegistered = NoProvider
    /\ outcome = [s \in Sessions |-> "none"]
    /\ effects = [s \in Sessions |-> <<>>]
    /\ directCall = "none"

\* the values of a process that has not been launched
NoExit  == -1
NoError == "none"

NoConfig ==
    [HOST |-> Undefined, PORT |-> Undefined, MCP_USE_HTTP |-> Undefined,
     MCP_ENDPOINT |-> Undefined]

IdleBoot ==
    /\ config = NoConfig
    /\ pc = "load"
    /\ engine = "idle"
    /\ engineError = NoError
    /\ engineStarts = <<>>
    /\ stopsPending = 0
    /\ stopsCompleted = 0
    /\ keepAlive = "none"
    /\ received = 0
    /\ startFailed = FALSE
    /\ exitCode = NoExit

(***************************************************************************)
(* The path resolver on its own                                            *)
(***************************************************************************)
\* the module is loaded, then the test's beforeEach and the test's own
\* assignments to STORAGE_ROOT and TASK_MASTER_STORAGE_ROOT have run
InitPath ==
    /\ \E loadRoot \in LoadStorageRootValues :
          DEFAULT_STORAGE_ROOT = LoadDefaultStorageRoot([STORAGE_ROOT |-> loadRoot])
    /\ env \in [LIBRECHAT_USER_ID : {Undefined},
                STORAGE_ROOT : StorageRootValues,
                TASK_MASTER_STORAGE_ROOT : CustomRootValues]
    /\ projectPath \in ProjectPaths
    /\ resolver = [c \in Callers |-> NoResolver]
    /\ IdleAuth
    /\ IdleSystem
    /\ IdleBoot

\* process.env.LIBRECHAT_USER_ID = v; const resolver = new PathResolver(projectPath)
ResolveAs(c, v) ==
    /\ ~resolver[c].built
    /\ v # Undefined
    /\ env' = [env EXCEPT !.LIBRECHAT_USER_ID = v]
    /\ resolver' = [resolver EXCEPT ![c] =
            [built |-> TRUE, userId |-> v]
                @@ PathResolver(projectPath, [env EXCEPT !.LIBRECHAT_USER_ID = v])]
    /\ UNCHANGED <<DEFAULT_STORAGE_ROOT, projectPath, authVars, sysVars, bootVars>>

\* delete process.env.LIBRECHAT_USER_ID; const resolver = new PathResolver(projectPath)
ResolveAnonymous(c) ==
    /\ ~resolver[c].built
    /\ env' = [env EXCEPT !.LIBRECHAT_USER_ID = Undefined]
    /\ resolver' = [resolver EXCEPT ![c] =
            [built |-> TRUE, userId |-> Undefined]
                @@ PathResolver(projectPath, [env EXCEPT !.LIBRECHAT_USER_ID = Undefined])]
    /\ UNCHANGED <<DEFAULT_STORAGE_ROOT, projectPath, authVars, sysVars, bootVars>>

NextPath ==
    \/ \E c \in Callers, v \in UserIdValues : ResolveAs(c, v)
    \/ \E c \in Callers : ResolveAnonymous(c)

SpecPath == InitPath /\ [][NextPath]_vars

(***************************************************************************)
(* authenticate on its own                                                 *)
(***************************************************************************)
InitAuth ==
    /\ request \in Requests
    /\ authResult = NotCalled
    /\ IdlePath
    /\ IdleSystem
    /\ IdleBoot

\* await options.authenticate(request)
Authenticate ==
    /\ ~authResult.called
    /\ authResult' = authenticate(request)
    /\ UNCHANGED <<request, pathVars, sysVars, bootVars>>

NextAuth == Authenticate

SpecAuth == InitAuth /\ [][NextAuth]_vars

(***************************************************************************)
(* The server: start() and sessions connecting                             *)
(***************************************************************************)
Init ==
    /\ DEFAULT_STORAGE_ROOT = SlashStorage
    /\ env = [LIBRECHAT_USER_ID |-> Undefined, STORAGE_ROOT |-> Undefined,
              TASK_MASTER_STORAGE_ROOT |-> Undefined]
    /\ projectPath = <<"/", "p">>
    /\ resolver = [c \in Callers |-> NoResolver]
    /\ IdleAuth
    /\ IdleSystem
    /\ IdleBoot

\* start(): this.server.on('connect', ...) adds one more listener
Start ==
    /\ listeners < MaxStarts
    /\ listeners' = listeners + 1
    /\ UNCHANGED <<pathVars, authVars, session, registry, providers, clientLog,
                   serverLog, lastRegistered, outcome, effects, directCall, bootVars>>

\* a client connects: the engine authenticates the request, creates the
\* session and emits 'connect'; the sessions are numbered in the order in
\* which they connect
Connect(sid) ==
    /\ listeners > 0
    /\ ~session[sid].connected
    /\ \A earlier \in 1 .. (sid - 1) : session[earlier].connected
    /\ \E req \in SessionRequests, caps \in ClientCapabilities :
       \E fault \in IF caps = "sampling" THEN Faults ELSE {"none"},
          senv \in SessionEnvs(authenticate(req).userId) :
          LET auth    == authenticate(req)
              created == [connected |-> TRUE, closed |-> FALSE, auth |-> auth.userId,
                          env |-> senv, clientCapabilities |-> caps]
              before  == [session |-> [session EXCEPT ![sid] = created],
                          env |-> env,
                          registry |-> registry, providers |-> providers,
                          clientLog |-> clientLog, serverLog |-> serverLog,
                          lastRegistered |-> lastRegistered, effects |-> effects,
                          threw |-> FALSE]
              after   == emitConnect(before, sid, listeners, fault)
          IN  /\ ~auth.threw
              /\ session' = after.session
              /\ env' = after.env
              /\ effects' = after.effects
              /\ registry' = after.registry
              /\ providers' = after.providers
              /\ clientLog' = after.clientLog
              /\ serverLog' = after.serverLog
              /\ lastRegistered' = after.lastRegistered
              /\ outcome' = [outcome EXCEPT ![sid] =
                                 IF after.threw THEN "threw" ELSE "returned"]
    /\ UNCHANGED <<DEFAULT_STORAGE_ROOT, projectPath, resolver, authVars, listeners,
                   directCall, bootVars>>

\* the client of a session goes away: the engine ends the session; the server
\* has put no listener on 'disconnect', so nothing of its own state changes
Disconnect(sid) ==
    /\ session[sid].connected
    /\ ~session[sid].closed
    /\ session' = [session EXCEPT ![sid].closed = TRUE]
    /\ UNCHANGED <<pathVars, authVars, listeners, registry, providers, clientLog,
                   serverLog, lastRegistered, outcome, effects, directCall, bootVars>>

\* what the tool code serving a session works with: it builds
\* new PathResolver(projectRoot), which is handed no session, and takes the
\* 'mcp' provider from the registry
ResolutionFor(sid) == PathResolver(projectPath, env)

ProviderFor(sid) == getProvider(registry, "mcp")

Next ==
    \/ Start
    \/ \E sid \in Sessions : Connect(sid)

Spec == Init /\ [][Next]_vars

\* a caller hands registerRemoteProvider no session (null or undefined)
RegisterWithoutSession ==
    /\ directCall = "none"
    /\ LET before == [session |-> session, env |-> env,
                      registry |-> registry, providers |-> providers,
                      clientLog |-> clientLog, serverLog |-> serverLog,
                      lastRegistered |-> lastRegistered, effects |-> effects,
                      threw |-> FALSE]
           after  == registerRemoteProvider(before, NoSession, "none")
       IN  /\ session' = after.session
           /\ env' = after.env
           /\ registry' = after.registry
           /\ providers' = after.providers
           /\ clientLog' = after.clientLog
           /\ serverLog' = after.serverLog
           /\ lastRegistered' = after.lastRegistered
           /\ effects' = after.effects
           /\ directCall' = IF after.threw THEN "threw" ELSE "returned"
    /\ UNCHANGED <<DEFAULT_STORAGE_ROOT, projectPath, resolver, authVars, listeners,
                   outcome, bootVars>>

\* the same server with registerRemoteProvider also called directly
NextRegister ==
    \/ Start
    \/ \E sid \in Sessions : Connect(sid)
    \/ RegisterWithoutSession

SpecRegister == Init /\ [][NextRegister]_vars

\* the same server with the sessions' ends observed as well
NextSessions ==
    \/ Start
    \/ \E sid \in Sessions : Connect(sid)
    \/ \E sid \in Sessions : Disconnect(sid)

SpecSessions == Init /\ [][NextSessions]_vars

(***************************************************************************)
(* The entry point (startServer) and TaskMasterMCPServer.start / stop       *)
(*                                                                         *)
(* The entry point registers its signal handlers and calls server.start()  *)
(* in one synchronous run; init() has no asynchronous step, so the first   *)
(* point where other events can be served is await this.server.start(...). *)
(* The protocol engine answers start and stop at some later step.          *)
(***************************************************************************)
MaxSignals == 2

Signals == {"SIGINT", "SIGTERM"}

\* the exit status of a process ended by a signal it has no handler for
Signo(sig) == IF sig = "SIGINT" THEN 2 ELSE 15
KilledBy(sig) == 128 + Signo(sig)

\* Number('x'): a value that is not a number
NaN == [t |-> "number", s |-> <<"NaN">>, n |-> 0]

\* atoms that are runs of decimal digits, and the numbers they spell
DigitRuns == {"3005"}
ValueOf(run) == 3005

\* parseInt(port, 10): the leading digits, NaN when there are none
parseInt(s) ==
    IF Len(s) > 0 /\ s[1] \in DigitRuns THEN Num(ValueOf(s[1])) ELSE NaN

\* the literals '/mcp' and 'true'
SlashMcp    == <<"/", "mcp">>
TrueLiteral == <<"true">>

\* start() deciding on HOST and PORT alone
useHttpTransport_noFlag(cfg) ==
    Truthy(cfg.HOST) /\ Truthy(cfg.PORT)

\* process.env.MCP_USE_HTTP === 'true' && host && port
useHttpTransport(cfg) ==
    /\ cfg.MCP_USE_HTTP = Str(TrueLiteral)
    /\ Truthy(cfg.HOST)
    /\ Truthy(cfg.PORT)

\* the entry point's own test: process.env.HOST && process.env.PORT
isHttpTransport(cfg) == Truthy(cfg.HOST) /\ Truthy(cfg.PORT)

\* endpoint.startsWith('/') ? endpoint : `/${endpoint}`
normalizeEndpoint(endpoint) ==
    IF startsWith(endpoint, <<"/">>) THEN endpoint ELSE <<"/">> \o endpoint

\* const endpoint = process.env.MCP_ENDPOINT || '/mcp', then normalized
normalizedEndpoint(cfg) ==
    normalizeEndpoint(JsOr(cfg.MCP_ENDPOINT, Str(SlashMcp)).s)

\* the argument start() hands to this.server.start
transportConfig(cfg) ==
    IF useHttpTransport(cfg)
    THEN [transportType |-> "sse", endpoint |-> normalizedEndpoint(cfg),
          port |-> parseInt(cfg.PORT.s)]
    ELSE [transportType |-> "stdio", endpoint |-> <<>>, port |-> Undefined]

\* logger.info / warn / error: message is the template, args the values
\* interpolated into it
LogLine(level, message, args) == [level |-> level, message |-> message, args |-> args]

InitMessages ==
    <<LogLine("info", "Task Master MCP Server starting...", <<>>),
      LogLine("info", "Tool mode configuration: ${normalizedToolMode}", <<>>),
      LogLine("info", "Normalized tool mode: ${registrationResult.normalizedMode}", <<>>),
      LogLine("info", "Registered ${registrationResult.registeredTools.length} tools successfully",
              <<>>)>>

StartingSseMessage ==
    "Starting MCP server on HTTP (SSE) transport at http://${host}:${portNum}${normalizedEndpoint}"
CallingStartMessage ==
    "Calling server.start() with transportType: sse, endpoint: ${normalizedEndpoint}, port: ${portNum}"
StartingStdioMessage == "Starting MCP server on stdio transport"
SseFailedMessage     == "Failed to start SSE server: ${error.message}"
StartFailedMessage   == "Failed to start MCP server: ${error.message}"
StackMessage         == "${error.stack}"
ReceivedMessage      == "Received ${signal}, shutting down gracefully..."

\* what start() logs before it calls this.server.start
AnnounceTransport(cfg) ==
    IF useHttpTransport(cfg)
    THEN <<LogLine("info", StartingSseMessage,
                   <<cfg.HOST.s, parseInt(cfg.PORT.s), normalizedEndpoint(cfg)>>),
           LogLine("info", CallingStartMessage,
                   <<normalizedEndpoint(cfg), parseInt(cfg.PORT.s)>>)>>
    ELSE <<LogLine("info", StartingStdioMessage, <<>>)>>

\* what start() logs after this.server.start resolved; found says whether
\* this.server._sseServer || this.server.sseServer is there
AfterEngineStart(cfg, found) ==
    IF useHttpTransport(cfg)
    THEN <<LogLine("info", "server.start() completed, checking for SSE server instance...",
                   <<>>)>>
         \o (IF found
             THEN <<LogLine("info", "SSE server reference found and stored", <<>>)>>
             ELSE <<LogLine("warn", "SSE server reference not found in expected locations",
                            <<>>),
                    LogLine("warn",
                            "Server may still be running - FastMCP stores it in a private field",
                            <<>>)>>)
         \o <<LogLine("info",
                      "MCP server startup completed for HTTP transport at http://${host}:${portNum}${normalizedEndpoint}",
                      <<cfg.HOST.s, parseInt(cfg.PORT.s), normalizedEndpoint(cfg)>>)>>
    ELSE <<>>

\* start() with a catch that does not rethrow
startRejected_swallowed(cfg, reason) ==
    [lines |-> IF useHttpTransport(cfg)
               THEN <<LogLine("error", SseFailedMessage, <<reason>>),
                      LogLine("error", StackMessage, <<reason>>)>>
               ELSE <<>>,
     threw |-> ~useHttpTransport(cfg)]

\* this.server.start rejected with an error whose message is reason: the
\* catch of the networked branch logs and rethrows, the stdio branch has no
\* catch
startRejected(cfg, reason) ==
    [lines |-> IF useHttpTransport(cfg)
               THEN <<LogLine("error", SseFailedMessage, <<reason>>),
                      LogLine("error", StackMessage, <<reason>>)>>
               ELSE <<>>,
     threw |-> TRUE]

\* the catch of startServer: two lines, then process.exit(1)
StartServerCatch(reason) ==
    <<LogLine("error", StartFailedMessage, <<reason>>),
      LogLine("error", StackMessage, <<reason>>)>>

\* what startServer logs after await server.start() returned
AfterStart(cfg) ==
    IF isHttpTransport(cfg)
    THEN <<LogLine("info",
                   "HTTP transport active, server is running and waiting for connections...",
                   <<>>)>>
    ELSE <<LogLine("info",
                   "stdio transport active, process will stay alive for stdio communication",
                   <<>>)>>

HostValues     == {Undefined, Str(<<>>), Str(<<"0.0.0.0">>)}
PortValues     == {Undefined, Str(<<"3005">>), Str(<<"x">>)}
UseHttpValues  == {Undefined, Str(<<"true">>), Str(<<"false">>)}
EndpointValues ==
    {Undefined, Str(<<>>), Str(<<"mcp">>), Str(<<"/", "mcp">>), Str(<<"/", "/", "mcp">>)}

\* error.message of what init() or this.server.start fails with
Reasons == {"EADDRINUSE", "EACCES"}

\* the process is launched: the modules are being loaded
InitBoot ==
    /\ config \in [HOST : HostValues, PORT : PortValues, MCP_USE_HTTP : UseHttpValues,
                   MCP_ENDPOINT : EndpointValues]
    /\ pc = "load"
    /\ engine = "idle"
    /\ engineError = NoError
    /\ engineStarts = <<>>
    /\ stopsPending = 0
    /\ stopsCompleted = 0
    /\ keepAlive = "none"
    /\ received = 0
    /\ startFailed = FALSE
    /\ exitCode = NoExit
    /\ IdlePath
    /\ IdleAuth
    /\ IdleSystem

\* startServer() up to await this.server.start(...): new TaskMasterMCPServer(),
\* the two process.on handlers, start(): init(), this.server.on('connect'),
\* the transport decision and the call of the engine
StartServer ==
    /\ pc = "load"
    /\ listeners' = listeners + 1
    /\ serverLog' = serverLog \o InitMessages \o AnnounceTransport(config)
    /\ engineStarts' = Append(engineStarts, transportConfig(config))
    /\ engine' = "starting"
    /\ pc' = "starting"
    /\ UNCHANGED <<pathVars, authVars, session, registry, providers, clientLog,
                   lastRegistered, outcome, effects, directCall, config, engineError, stopsPending,
                   stopsCompleted, keepAlive, received, startFailed, exitCode>>

\* startServer() when init() throws (registerTaskMasterTools): start() rejects
\* before it reaches the transport, the catch of startServer exits
StartServerInitFails(reason) ==
    /\ pc = "load"
    /\ serverLog' = serverLog \o SubSeq(InitMessages, 1, 2) \o StartServerCatch(reason)
    /\ startFailed' = TRUE
    /\ exitCode' = 1
    /\ pc' = "exited"
    /\ UNCHANGED <<pathVars, authVars, listeners, session, registry, providers, clientLog,
                   lastRegistered, outcome, effects, directCall, config, engine, engineError,
                   engineStarts, stopsPending, stopsCompleted, keepAlive, received>>

\* this.server.start resolved: start() returns, startServer arms the
\* keep-alive interval (and its two clearInterval handlers) when HOST and PORT
\* are set
EngineStarted(found) ==
    /\ pc = "starting"
    /\ engine' = "running"
    /\ serverLog' = serverLog \o AfterEngineStart(config, found) \o AfterStart(config)
    /\ keepAlive' = IF isHttpTransport(config) THEN "armed" ELSE keepAlive
    /\ pc' = "running"
    /\ UNCHANGED <<pathVars, authVars, listeners, session, registry, providers, clientLog,
                   lastRegistered, outcome, effects, directCall, config, engineError, engineStarts,
                   stopsPending, stopsCompleted, received, startFailed, exitCode>>

\* this.server.start rejected
EngineStartFailed(reason) ==
    /\ pc = "starting"
    /\ engine' = "failed"
    /\ engineError' = reason
    /\ LET r == startRejected(config, reason) IN
          IF r.threw
          THEN /\ serverLog' = serverLog \o r.lines \o StartServerCatch(reason)
               /\ startFailed' = TRUE
               /\ exitCode' = 1
               /\ pc' = "exited"
               /\ UNCHANGED keepAlive
          ELSE /\ serverLog' = serverLog \o r.lines \o AfterStart(config)
               /\ keepAlive' = IF isHttpTransport(config) THEN "armed" ELSE keepAlive
               /\ pc' = "running"
               /\ UNCHANGED <<startFailed, exitCode>>
    /\ UNCHANGED <<pathVars, authVars, listeners, session, registry, providers, clientLog,
                   lastRegistered, outcome, effects, directCall, config, engineStarts, stopsPending,
                   stopsCompleted, received>>

\* a termination signal arrives while the modules are still being loaded:
\* no handler is registered yet, the default action ends the process
SignalBeforeHandlers(sig) ==
    /\ pc = "load"
    /\ received < MaxSignals
    /\ received' = received + 1
    /\ exitCode' = KilledBy(sig)
    /\ pc' = "exited"
    /\ UNCHANGED <<pathVars, authVars, sysVars, config, engine, engineError, engineStarts,
                   stopsPending, stopsCompleted, keepAlive, startFailed>>

\* a termination signal arrives: the first handler logs and calls
\* server.stop(), which calls this.server.stop() and waits; the second
\* handler, there once the interval was created, clears it
Signal(sig) ==
    /\ pc \in {"starting", "running"}
    /\ received < MaxSignals
    /\ received' = received + 1
    /\ serverLog' = Append(serverLog, LogLine("info", ReceivedMessage, <<sig>>))
    /\ stopsPending' = stopsPending + 1
    /\ keepAlive' = IF keepAlive = "armed" THEN "cleared" ELSE keepAlive
    /\ UNCHANGED <<pathVars, authVars, listeners, session, registry, providers, clientLog,
                   lastRegistered, outcome, effects, directCall, config, pc, engine, engineError,
                   engineStarts, stopsCompleted, startFailed, exitCode>>

\* this.server.stop() resolved for one waiting handler: what runs is
\* stopped, server.stop() returns, the handler calls process.exit(0)
EngineStopped ==
    /\ pc \in {"starting", "running"}
    /\ stopsPending > 0
    /\ stopsPending' = stopsPending - 1
    /\ stopsCompleted' = stopsCompleted + 1
    /\ engine' = IF engine = "running" THEN "stopped" ELSE engine
    /\ exitCode' = 0
    /\ pc' = "exited"
    /\ UNCHANGED <<pathVars, authVars, sysVars, config, engineError, engineStarts, keepAlive,
                   received, startFailed>>

NextBoot ==
    \/ StartServer
    \/ \E reason \in Reasons : StartServerInitFails(reason)
    \/ \E found \in BOOLEAN : EngineStarted(found)
    \/ \E reason \in Reasons : EngineStartFailed(reason)
    \/ \E sig \in Signals : SignalBeforeHandlers(sig)
    \/ \E sig \in Signals : Signal(sig)
    \/ EngineStopped

SpecBoot == InitBoot /\ [][NextBoot]_vars

\* the engine answers every call, and the entry point runs once loaded
SpecBootLive ==
    /\ SpecBoot
    /\ WF_vars(StartServer)
    /\ WF_vars(\E found \in BOOLEAN : EngineStarted(found))
    /\ WF_vars(EngineStopped)

(***************************************************************************)
(* Properties of the path resolver (checked under SpecPath)                *)
(***************************************************************************)
\* an environment variable counts as set when it holds a non-empty string
IsSet(v) == v.t = "string" /\ Len(v.s) > 0

IsPlaceholder(v) ==
    v.t = "string" /\ Len(v.s) >= 2 /\ v.s[1] = "{" /\ v.s[2] = "{"

IdentityPresent(v) == IsSet(v) /\ ~IsPlaceholder(v)

\* the directories a path names, from the file-system root down
Dirs(p) == normalizeString(p, FALSE)

IsPrefix(x, y) == Len(x) <= Len(y) /\ SubSeq(y, 1, Len(x)) = x

\* two spellings of one path
SamePath(p, q) == normalize(p) = normalize(q)

RootInEffect ==
    IF IsSet(env.STORAGE_ROOT) THEN env.STORAGE_ROOT.s ELSE DEFAULT_STORAGE_ROOT

\* C1: two PathResolvers built for different non-empty, non-placeholder
\* identities under the same storage root have different base paths, and
\* neither base path lies in the subtree of the other.
C1_DisjointBases ==
    \A c1, c2 \in Callers :
        ( /\ resolver[c1].built /\ resolver[c2].built
          /\ IdentityPresent(resolver[c1].userId)
          /\ IdentityPresent(resolver[c2].userId)
          /\ resolver[c1].userId # resolver[c2].userId )
        => /\ resolver[c1].basePath # resolver[c2].basePath
           /\ ~IsPrefix(Dirs(resolver[c1].basePath), Dirs(resolver[c2].basePath))

\* C4: the base path follows the fixed priority (identity, then
\* TASK_MASTER_STORAGE_ROOT verbatim, then the project root), and tasksDir
\* and tasksFile are <base>/tasks and <base>/tasks/tasks.json.
C4_Priority ==
    \A c \in Callers :
        resolver[c].built =>
            LET r == resolver[c]
                u == r.userId
                custom == env.TASK_MASTER_STORAGE_ROOT
            IN  /\ IdentityPresent(u) =>
                       SamePath(r.basePath,
                                RootInEffect \o <<"/">> \o u.s \o <<"/">> \o DotTaskmaster)
                /\ (~IdentityPresent(u) /\ IsSet(custom)) => r.basePath = custom.s
                /\ (~IdentityPresent(u) /\ ~IsSet(custom)) =>
                       SamePath(r.basePath, projectPath \o <<"/">> \o DotTaskmaster)
                /\ r.basePath = custom.s \/ r.basePath = normalize(r.basePath)
                /\ SamePath(r.tasksDir, r.basePath \o <<"/">> \o TasksName)
                /\ SamePath(r.tasksFilePath,
                            r.basePath \o <<"/">> \o TasksName \o <<"/">> \o TasksJson)
                /\ r.tasksDir = normalize(r.tasksDir)
                /\ r.tasksFilePath = normalize(r.tasksFilePath)

\* a resolver built for user "a" while TASK_MASTER_STORAGE_ROOT is set too:
\* the identity wins and the base is /t/a/.taskmaster
C4_Witness ==
    \E c \in Callers :
        /\ resolver[c].built
        /\ resolver[c].userId = Str(<<"a">>)
        /\ IsSet(env.TASK_MASTER_STORAGE_ROOT)
        /\ env.STORAGE_ROOT = Str(<<"/", "t">>)
        /\ resolver[c].basePath = <<"/", "t", "/", "a", "/", ".", "taskmaster">>
        /\ resolver[c].tasksFilePath =
               <<"/", "t", "/", "a", "/", ".", "taskmaster", "/", "tasks", "/", "tasks.json">>

\* C5: a PathResolver built while the identity is a template placeholder has
\* the same base, tasksDir and tasksFile as one built with no identity.
C5_PlaceholderAsAbsent ==
    \A c1, c2 \in Callers :
        ( /\ resolver[c1].built /\ resolver[c2].built
          /\ IsPlaceholder(resolver[c1].userId)
          /\ resolver[c2].userId = Undefined )
        => /\ resolver[c1].basePath = resolver[c2].basePath
           /\ resolver[c1].tasksDir = resolver[c2].tasksDir
           /\ resolver[c1].tasksFilePath = resolver[c2].tasksFilePath

\* one resolver built under "{{a", one under no identity, no override set:
\* both are rooted at the project root
C5_Witness ==
    /\ resolver["first"].built /\ resolver["second"].built
    /\ resolver["first"].userId = Str(<<"{", "{", "a">>)
    /\ resolver["second"].userId = Undefined
    /\ ~IsSet(env.TASK_MASTER_STORAGE_ROOT)
    /\ projectPath = <<"/", "p">>
    /\ resolver["first"].basePath = <<"/", "p", "/", ".", "taskmaster">>

\* C15: a PathResolver built while an identity is present and STORAGE_ROOT
\* is unset has the base <fixed default root>/<identity>/.taskmaster, the
\* default root being /storage whatever STORAGE_ROOT held when the module
\* was loaded.
C15_FreshPerConstruction ==
    \A c \in Callers :
        ( /\ resolver[c].built
          /\ IdentityPresent(resolver[c].userId)
          /\ ~IsSet(env.STORAGE_ROOT) )
        => SamePath(resolver[c].basePath,
                    SlashStorage \o <<"/">> \o resolver[c].userId.s \o <<"/">> \o DotTaskmaster)

(***************************************************************************)
(* Properties of the server (checked under Spec)                           *)
(***************************************************************************)
HasLogged(sid, message) ==
    \E i \in 1 .. Len(clientLog[sid]) : clientLog[sid][i].message = message

\* C2: every resolution made for a session that connected with identity u,
\* and has u written into its execution context, yields the base path
\* <root>/u/.taskmaster of that session's own namespace.
C2_ResolverSeesSessionIdentity ==
    \A sid \in Sessions :
        ( /\ session[sid].connected
          /\ IdentityPresent(session[sid].auth)
          /\ session[sid].env.LIBRECHAT_USER_ID = session[sid].auth )
        => SamePath(ResolutionFor(sid).basePath,
                    RootInEffect \o <<"/">> \o session[sid].auth.s \o <<"/">> \o DotTaskmaster)

\* C3: the provider obtained from the registry under 'mcp' while serving a
\* connected session is bound to that session, never to another one.
C3_ProviderOfOwnSession ==
    \A sid \in Sessions :
        session[sid].connected => ProviderFor(sid).session \in {NoSession, sid}

\* C6: the registry holds at most one provider per name, and once a
\* registration has completed the entry for 'mcp' is the provider of the
\* most recently completed one.
C6_LastWriterWins ==
    /\ \A e1, e2 \in registry : e1.name = e2.name => e1 = e2
    /\ lastRegistered # NoProvider =>
           registry = {[name |-> "mcp", provider |-> lastRegistered]}

\* two sessions have both registered; the single entry is the later one's
C6_Witness ==
    \E s1, s2 \in Sessions :
        /\ s1 # s2
        /\ HasLogged(s1, RegisteredMessage)
        /\ HasLogged(s2, RegisteredMessage)
        /\ lastRegistered.session = s2
        /\ lastRegistered.id > 1
        /\ Cardinality(registry) = 1
        /\ getProvider(registry, "mcp") = lastRegistered

\* C7: the connect handling of a session whose client capabilities are
\* missing or lack sampling leaves the registry as it was and sends the skip
\* message, which differs from the message sent after a registration.
C7_NoSamplingNoRegistration ==
    [][\A sid \in Sessions :
          ( /\ ~session[sid].connected
            /\ session'[sid].connected
            /\ session'[sid].clientCapabilities # "sampling" )
          => /\ registry' = registry
             /\ lastRegistered' = lastRegistered
             /\ \E i \in 1 .. Len(clientLog'[sid]) :
                    clientLog'[sid][i].message = SkipMessage
             /\ \A i \in 1 .. Len(clientLog'[sid]) :
                    clientLog'[sid][i].message # RegisteredMessage
             /\ SkipMessage # RegisteredMessage]_vars

\* a session without sampling has connected while another session's
\* provider is registered; that entry is still there
C7_Witness ==
    \E sid \in Sessions :
        /\ session[sid].connected
        /\ session[sid].clientCapabilities = "empty"
        /\ HasLogged(sid, SkipMessage)
        /\ registry # {}
        /\ getProvider(registry, "mcp").session \notin {sid, NoSession}

\* C10: a failure of provider registration during a session's connect
\* handling does not leave the connect handler: the emit returns normally.
C10_RegistrationFailureContained ==
    \A sid \in Sessions : outcome[sid] # "threw"

(***************************************************************************)
(* Properties of authenticate (checked under SpecAuth)                     *)
(***************************************************************************)
\* header names compare without regard to letter case
LowerCase(k) ==
    CASE k = "X-LibreChat-User-ID" -> "x-librechat-user-id"
      [] k = "X-LIBRECHAT-USER-ID" -> "x-librechat-user-id"
      [] OTHER                     -> k

\* the request carries the user-identity header, in some casing, with value v
Carries(req, v) ==
    /\ req.present /\ req.hasHeaders
    /\ \E k \in HeaderKeys :
          LowerCase(k) = "x-librechat-user-id" /\ req.headers[k] = v

\* every header value is a string, and the header appears at most once
WellFormed(req) ==
    /\ \A k \in HeaderKeys : req.headers[k].t \in {"undefined", "string"}
    /\ Cardinality({k \in HeaderKeys : req.headers[k] # Undefined}) <= 1

\* C8: authenticate returns an identity exactly when the request carries the
\* user-identity header, in any letter casing, with a non-empty value that
\* does not begin with the template marker; the identity is that value.
C8_IdentityIffHeader ==
    (authResult.called /\ WellFormed(request)) =>
        /\ ~authResult.threw
        /\ authResult.userId # Undefined
               <=> \E v \in HeaderValues : IdentityPresent(v) /\ Carries(request, v)
        /\ authResult.userId # Undefined => Carries(request, authResult.userId)

\* C9: authenticate never throws, whatever the request holds, and returns
\* no identity for a missing request, missing headers or a header value
\* that is not a string.
C9_NeverThrows ==
    authResult.called =>
        /\ ~authResult.threw
        /\ (~request.present \/ ~request.hasHeaders) => authResult.userId = Undefined
        /\ authResult.userId # Undefined => authResult.userId.t = "string"

(***************************************************************************)
(* Properties of the entry point and of start() (checked under SpecBoot)   *)
(***************************************************************************)
\* the three settings that enable the networked transport are all present
NetworkedConfigured ==
    /\ IsSet(config.HOST)
    /\ IsSet(config.PORT)
    /\ config.MCP_USE_HTTP = Str(TrueLiteral)

C12_SignalExitsZero ==
    /\ [](received > 0 => <>(exitCode = 0))
    /\ [](exitCode \notin {NoExit, 0} => (startFailed /\ received = 0))

\* the log has a line whose arguments are exactly args
LoggedLine(level, message, args) ==
    \E i \in 1 .. Len(serverLog) : serverLog[i] = LogLine(level, message, args)

\* C13: when the start of the networked transport has failed, the process
\* has exited with a non-zero code and is not running, and the log holds the
\* chosen host, port and endpoint and the reason of the failure.
C13_FailedNetworkedStartIsFatal ==
    (engine = "failed" /\ engineStarts[1].transportType = "sse") =>
        /\ pc = "exited"
        /\ exitCode \notin {NoExit, 0}
        /\ keepAlive # "armed"
        /\ LoggedLine("info", StartingSseMessage,
                      <<config.HOST.s, engineStarts[1].port, engineStarts[1].endpoint>>)
        /\ LoggedLine("error", SseFailedMessage, <<engineError>>)
        /\ LoggedLine("error", StartFailedMessage, <<engineError>>)

\* the bind on 0.0.0.0:3005/mcp failed with EADDRINUSE and the process is gone
C13_Witness ==
    /\ engine = "failed"
    /\ engineError = "EADDRINUSE"
    /\ engineStarts = <<[transportType |-> "sse", endpoint |-> SlashMcp, port |-> Num(3005)]>>
    /\ config.HOST = Str(<<"0.0.0.0">>)
    /\ exitCode = 1
    /\ LoggedLine("info", StartingSseMessage, <<<<"0.0.0.0">>, Num(3005), SlashMcp>>)
    /\ LoggedLine("error", SseFailedMessage, <<"EADDRINUSE">>)

\* C19: the endpoint handed to the networked transport begins with exactly
\* one '/', whatever MCP_ENDPOINT holds, and normalizing it again leaves it
\* unchanged.
C19_SingleLeadingSeparator ==
    \A i \in 1 .. Len(engineStarts) :
        engineStarts[i].transportType = "sse" =>
            LET e == engineStarts[i].endpoint IN
            /\ Len(e) >= 1 /\ e[1] = "/"
            /\ Len(e) >= 2 => e[2] # "/"
            /\ normalizeEndpoint(e) = e

\* C20: when the process has exited with code 0, which only a signal handler
\* does, a call of the engine's stop() has completed, the transport is not
\* running and the keep-alive interval is not armed.
C20_OrderedShutdown ==
    exitCode = 0 =>
        /\ stopsCompleted >= 1
        /\ engine # "running"
        /\ keepAlive # "armed"

\* C21: the entry point holds a keep-alive interval exactly when start() has
\* started the networked transport: none is created while the stdio
\* transport is in use, and one is created once the SSE transport runs.
C21_KeepAliveIffNetworked ==
    /\ keepAlive # "none" => engineStarts[1].transportType = "sse"
    /\ (pc = "running" /\ engineStarts[1].transportType = "sse") => keepAlive # "none"

(***************************************************************************)
(* Properties of connect handling (checked under Spec and SpecSessions)    *)
(***************************************************************************)
\* C14: for every session the connect message is the first side effect of
\* its connect handling, before the identity is bound, a provider is built
\* or the registry is changed, and it comes before the session's
\* registration message or skip message.
C14_ConnectLogFirst ==
    \A sid \in Sessions :
        /\ effects[sid] # <<>> => effects[sid][1] = LogEffect(ConnectMessage)
        /\ clientLog[sid] # <<>> => clientLog[sid][1].message = ConnectMessage
        /\ \A i \in 1 .. Len(effects[sid]) :
              effects[sid][i] \in {LogEffect(RegisteredMessage), LogEffect(SkipMessage)}
                  => \E j \in 1 .. (i - 1) : effects[sid][j] = LogEffect(ConnectMessage)

\* a session with an identity and sampling went through all the steps
C14_Witness ==
    \E sid \in Sessions :
        /\ session[sid].auth = Str(<<"a">>)
        /\ effects[sid] = <<LogEffect(ConnectMessage), BindEffect, ConstructEffect,
                            SetSessionEffect, RegisterEffect,
                            LogEffect(RegisteredMessage)>>
        /\ registry # {}

\* C16: once a session has disconnected, in whatever order the sessions
\* connected, registered and disconnected, the registry holds no provider
\* bound to that session.
C16_NoDanglingProvider ==
    \A sid \in Sessions :
        session[sid].closed => \A e \in registry : e.provider.session # sid

\* the positions of effect e in the trace of session sid
Positions(sid, e) == {i \in 1 .. Len(effects[sid]) : effects[sid][i] = e}

\* the positions at which a registration attempt starts or is skipped
AttemptPositions(sid) ==
    Positions(sid, ConstructEffect) \cup Positions(sid, LogEffect(SkipMessage))

\* C17: for every session, however often start() was called before it
\* connected, the connect message, the identity binding and the registration
\* attempt each happen at most once, in that order.
C17_StepsAtMostOnce ==
    \A sid \in Sessions :
        /\ Cardinality(Positions(sid, LogEffect(ConnectMessage))) <= 1
        /\ Cardinality(Positions(sid, BindEffect)) <= 1
        /\ Cardinality(AttemptPositions(sid)) <= 1
        /\ \A i \in Positions(sid, LogEffect(ConnectMessage)) :
              \A j \in Positions(sid, BindEffect) \cup AttemptPositions(sid) : i < j
        /\ \A i \in Positions(sid, BindEffect) : \A j \in AttemptPositions(sid) : i < j

\* C18: the connect handling of a session writes the identity into that
\* session's own env only: the process environment and every other session
\* are left as they were, and a session without an identity has no
\* LIBRECHAT_USER_ID written.
C18_BindingScopedToSession ==
    [][\A sid \in Sessions :
          (~session[sid].connected /\ session'[sid].connected) =>
              /\ env' = env
              /\ \A other \in Sessions \ {sid} : session'[other] = session[other]
              /\ Truthy(session'[sid].auth) =>
                     session'[sid].env =
                         [exists |-> TRUE, LIBRECHAT_USER_ID |-> session'[sid].auth]
              /\ ~Truthy(session'[sid].auth) =>
                     /\ session'[sid].env \in {NoEnv, EmptyEnv}
                     /\ Positions(sid, BindEffect)' = {}]_vars

\* two users are connected at once, each with its own identity in its own
\* session, and the process environment names neither
C18_Witness ==
    \E s1, s2 \in Sessions :
        /\ session[s1].connected /\ session[s2].connected
        /\ session[s1].env.LIBRECHAT_USER_ID = Str(<<"a">>)
        /\ session[s2].env.LIBRECHAT_USER_ID = Str(<<"b">>)
        /\ env.LIBRECHAT_USER_ID = Undefined

\* C22: a call of registerRemoteProvider with no session (null or undefined)
\* does not raise: it never ends in an exception.
C22_NoSessionNoRaise == directCall # "threw"

\* C23: every provider in the registry under 'mcp' is bound to a session
\* whose connect handling registered it, and in that handling each registerProvider
\* comes directly after the setSession that bound the provider: the registry
\* never holds a provider with no session attached.
C23_RegisteredProviderIsBound ==
    \A e \in registry :
        e.name = "mcp" =>
            /\ e.provider.session \in Sessions
            /\ Positions(e.provider.session, RegisterEffect) # {}
            /\ \A i \in Positions(e.provider.session, RegisterEffect) :
                   i > 1 /\ effects[e.provider.session][i - 1] = SetSessionEffect

\* a later session's registration has failed in setSession after an earlier
\* session registered: the entry is still the earlier, bound provider
C23_Witness ==
    \E s1, s2 \in Sessions :
        /\ s1 # s2
        /\ getProvider(registry, "mcp").session = s1
        /\ outcome[s2] = "threw"
        /\ Len(effects[s2]) > 0
        /\ effects[s2][Len(effects[s2])] = ConstructEffect
        /\ providers > getProvider(registry, "mcp").id

=============================================================================
